---- MODULE Spec2Model ----
(***************************************************************************)
(* Model of the attendance service worker (src/sw.js).                     *)
(*                                                                         *)
(* State: the worker's lifecycle phase, the origin's Cache Storage (the    *)
(* named stores in creation order, and each store's entries), the event    *)
(* handlers in flight (one record per handler: the async function it runs, *)
(* the await it is suspended at, its local variables), the clock, and the  *)
(* value the last step handed back to the platform (a response given to    *)
(* respondWith, a settled waitUntil promise, a posted message).            *)
(*                                                                         *)
(* One action per await-delimited step of each handler: between two awaits *)
(* JavaScript runs to completion, at an await any other handler may run.   *)
(***************************************************************************)
EXTENDS Integers, Sequences, FiniteSets, TLC

\* ------------------------------------------------------------------ bounds
MaxHandlers == 2        \* handlers in flight at once
MaxVersion == 3         \* successful network responses in one run
MaxClock == 2592001     \* the clock stops here (30 days + 1 s)
MaxData == 2            \* distinct attendance payloads a page sends
MaxEvents == 3          \* fetch, message and periodicsync events handled in one run

\* ------------------------------------------------------- program constants
CACHE_NAME == "attendance-system-v2.0.0"
STATIC_CACHE == "attendance-static-v2.0.0"
DYNAMIC_CACHE == "attendance-dynamic-v2.0.0"

CdnOrigin == "https://cdnjs.cloudflare.com"
JsPdfUrl == "https://cdnjs.cloudflare.com/ajax/libs/jspdf/2.5.1/jspdf.umd.min.js"
AutoTableUrl == "https://cdnjs.cloudflare.com/ajax/libs/jspdf-autotable/3.5.31/jspdf.plugin.autotable.min.js"

CORE_FILES == << "./", "./index.html", "./manifest.json", JsPdfUrl, AutoTableUrl >>

FALLBACK_FILE == "./index.html"
BACKUP_KEY == "attendance-data-backup"

\* 30 * 24 * 60 * 60 * 1000 ms. The clock of the model counts seconds, the
\* resolution of an HTTP Date header.
ThirtyDays == 30 * 24 * 60 * 60

\* ----------------------------------------------------------- the platform
\* self.location.origin: the origin the worker script is served from, at its root.
SelfOrigin == "https://attendance.example"
\* An origin that is neither the worker's nor the CDN's.
ForeignOrigin == "https://fonts.example"

\* Stores an earlier version of the worker left behind.
OtherCaches == << CACHE_NAME, "attendance-static-v1.0.0" >>
AllCaches == {STATIC_CACHE, DYNAMIC_CACHE} \cup {OtherCaches[i] : i \in 1..Len(OtherCaches)}

\* The URLs of the model, as the parts new URL(...) splits them into.
Urls ==
  { [origin |-> SelfOrigin, pathname |-> "/", search |-> ""],
    [origin |-> SelfOrigin, pathname |-> "/index.html", search |-> ""],
    [origin |-> SelfOrigin, pathname |-> "/index.html", search |-> "?action=view"],
    [origin |-> SelfOrigin, pathname |-> "/manifest.json", search |-> ""],
    [origin |-> SelfOrigin, pathname |-> "/icon-192.png", search |-> ""],
    [origin |-> SelfOrigin, pathname |-> "/attendance-data-backup", search |-> ""],
    [origin |-> CdnOrigin, pathname |-> "/ajax/libs/jspdf/2.5.1/jspdf.umd.min.js", search |-> ""],
    [origin |-> CdnOrigin, pathname |-> "/ajax/libs/jspdf-autotable/3.5.31/jspdf.plugin.autotable.min.js", search |-> ""],
    [origin |-> CdnOrigin, pathname |-> "/ajax/libs/xlsx/0.18.5/xlsx.full.min.js", search |-> ""],
    [origin |-> ForeignOrigin, pathname |-> "/css/font.css", search |-> ""] }

\* URL serialisation (request.url) and its inverse (new URL(request.url)).
Href(u) == u.origin \o u.pathname \o u.search
ParseUrl(href) == CHOOSE u \in Urls : Href(u) = href

\* A relative URL resolved against the worker's location, as Cache Storage does
\* for a string key; an absolute URL is kept.
ResolveUrl(s) ==
  CASE s = "./" -> SelfOrigin \o "/"
    [] s = "./index.html" -> SelfOrigin \o "/index.html"
    [] s = "./manifest.json" -> SelfOrigin \o "/manifest.json"
    [] s = "./index.html?action=view" -> SelfOrigin \o "/index.html?action=view"
    [] s = BACKUP_KEY -> SelfOrigin \o "/" \o BACKUP_KEY
    [] OTHER -> s

Includes(seq, x) == \E i \in 1..Len(seq) : seq[i] = x
Range(seq) == {seq[i] : i \in 1..Len(seq)}

\* The requests pages of the application issue.
IndexRequest == [method |-> "GET", url |-> SelfOrigin \o "/index.html", mode |-> "navigate"]
\* The page a notification click opens: './index.html?action=' + event.action.
ActionRequest == [method |-> "GET", url |-> SelfOrigin \o "/index.html?action=view", mode |-> "navigate"]
IconRequest == [method |-> "GET", url |-> SelfOrigin \o "/icon-192.png", mode |-> "no-cors"]
JsPdfRequest == [method |-> "GET", url |-> JsPdfUrl, mode |-> "no-cors"]
XlsxRequest == [method |-> "GET", url |-> CdnOrigin \o "/ajax/libs/xlsx/0.18.5/xlsx.full.min.js", mode |-> "no-cors"]
FontRequest == [method |-> "GET", url |-> ForeignOrigin \o "/css/font.css", mode |-> "no-cors"]
\* A page reading its backup back through the worker: fetch('attendance-data-backup').
BackupRequest == [method |-> "GET", url |-> SelfOrigin \o "/attendance-data-backup", mode |-> "cors"]
PostRequest == [method |-> "POST", url |-> SelfOrigin \o "/index.html", mode |-> "cors"]
Requests == {IndexRequest, ActionRequest, IconRequest, JsPdfRequest, XlsxRequest, FontRequest, PostRequest}
NoReq == [method |-> "", url |-> "", mode |-> ""]

\* ------------------------------------------------------------- responses
NoDate == -1
NoResp == [src |-> "none", status |-> 0, payload |-> 0, date |-> NoDate,
           error |-> "", offline |-> FALSE, timestamp |-> 0]
NullResp == [NoResp EXCEPT !.src = "null"]
\* A response of the network: fetch resolved with it.
NetResp(status, payload, date) ==
  [NoResp EXCEPT !.src = "network", !.status = status, !.payload = payload, !.date = date]
\* What cache.match / caches.match resolve with for a stored entry.
CachedResp(entry) ==
  [NoResp EXCEPT !.src = "cache", !.status = 200, !.payload = entry.payload, !.date = entry.date]
\* new Response(JSON.stringify({error, offline: true, timestamp}), {status: 503, ...})
ErrorResp(message, time) ==
  [NoResp EXCEPT !.src = "synth", !.status = 503, !.error = message, !.offline = TRUE,
                 !.timestamp = time]
CacheFirstError == "Network error and no cached version available"
NetworkFirstError == "Offline - No network connection"

\* A test that would take every status from 200 up for a success.
OkFrom200(resp) == resp.status >= 200

\* response.ok
Ok(resp) == resp.status >= 200 /\ resp.status <= 299

EmptyStore == [k \in {} |-> 0]

VARIABLES
  phase,       \* lifecycle of the worker: parsed, installing, installed, activating, activated, redundant
  cacheNames,  \* caches.keys(): the existing stores, in creation order
  store,       \* store name -> (request URL -> [payload, date, storedAt])
  hs,          \* handler slot -> the handler running in it
  now,         \* Date.now()
  netVersion,  \* how many successful responses the network has produced
  events,      \* how many events have started a handler
  lastData,    \* the data of the last CACHE_ATTENDANCE_DATA message sent (0: none yet)
  out          \* what the last step handed back to the platform

vars == << phase, cacheNames, store, hs, now, netVersion, events, lastData, out >>

Slots == 1..MaxHandlers

Idle == [kind |-> "idle", pc |-> "", req |-> NoReq, cached |-> NoResp, net |-> NoResp,
         responded |-> FALSE, names |-> <<>>, pending |-> {}, cur |-> "", cutoff |-> 0,
         data |-> 0, idx |-> 0, status |-> EmptyStore, alone |-> FALSE, deleted |-> {},
         seen |-> NoResp, shared |-> FALSE, action |-> ""]

NoOut == [ev |-> "none", kind |-> "", req |-> NoReq, resp |-> NoResp, failed |-> FALSE,
          cached |-> NoResp, deleted |-> {},
          alone |-> FALSE, cutoff |-> 0, status |-> EmptyStore, names |-> <<>>,
          seen |-> NoResp, shared |-> FALSE,
          target |-> "", clients |-> {}, focused |-> {}, opened |-> {}]

\* ------------------------------------------------------- Cache Storage
Entry(resp, time) == [payload |-> resp.payload, date |-> resp.date, storedAt |-> time]

Min(S) == CHOOSE x \in S : \A y \in S : x <= y

\* cache.match(key) on one store.
CacheMatch(name, key) ==
  IF key \in DOMAIN store[name] THEN CachedResp(store[name][key]) ELSE NoResp

\* caches.match(key): the first store, in creation order, that holds the key.
CachesMatch(key) ==
  LET hits == {i \in 1..Len(cacheNames) : key \in DOMAIN store[cacheNames[i]]}
  IN IF hits = {} THEN NoResp ELSE CacheMatch(cacheNames[Min(hits)], key)

\* caches.open(name): the store is created when it does not exist.
OpenedNames(name) ==
  IF Includes(cacheNames, name) THEN cacheNames ELSE Append(cacheNames, name)

\* A put that would drop the query string of the key: the entry lands under
\* the URL of another resource.
StorePutIgnoringSearch(st, name, key, resp) ==
  [st EXCEPT ![name] =
     (Href([ParseUrl(key) EXCEPT !.search = ""]) :> Entry(resp, now)) @@ st[name]]

\* cache.put(key, response) on a store.
StorePut(st, name, key, resp) ==
  [st EXCEPT ![name] = (key :> Entry(resp, now)) @@ st[name]]

\* cache.delete(key) on a store.
StoreDelete(st, name, key) ==
  [st EXCEPT ![name] = [k \in DOMAIN st[name] \ {key} |-> st[name][k]]]

\* caches.delete(name).
WithoutName(names, name) == SelectSeq(names, LAMBDA n : n # name)

\* ------------------------------------------------------------ handlers
FreeSlots == {h \in Slots : hs[h].kind = "idle"}
FreeSlot == Min(FreeSlots)

\* Handler h moves to record r; every other handler has now been interleaved with.
Step(h, r) ==
  [k \in Slots |-> IF k = h THEN r ELSE [hs[k] EXCEPT !.alone = FALSE]]

\* A put called by handler h took effect.
Stored(h) ==
  [NoOut EXCEPT !.ev = "put", !.kind = hs[h].kind, !.req = hs[h].req, !.resp = hs[h].net,
                !.cached = hs[h].cached, !.seen = hs[h].seen, !.shared = hs[h].shared]

Respond(h, resp, failed) ==
  [NoOut EXCEPT !.ev = "respond", !.kind = hs[h].kind, !.req = hs[h].req, !.resp = resp,
                !.failed = failed, !.seen = hs[h].seen, !.shared = hs[h].shared]

TypeOK ==
  /\ phase \in {"parsed", "installing", "installed", "activating", "activated", "redundant"}
  /\ Range(cacheNames) \subseteq AllCaches
  /\ \A n \in AllCaches : n \notin Range(cacheNames) => store[n] = EmptyStore
  /\ now \in 0..MaxClock
  /\ netVersion \in 0..MaxVersion
  /\ events \in 0..MaxEvents
  /\ lastData \in 0..MaxData

Init ==
  /\ phase = "parsed"
  /\ cacheNames \in {SubSeq(OtherCaches, 1, n) : n \in 0..Len(OtherCaches)}
  /\ store = [n \in AllCaches |->
                IF Includes(cacheNames, n)
                THEN (ResolveUrl("./index.html") :> [payload |-> 0, date |-> NoDate, storedAt |-> 0])
                ELSE EmptyStore]
  /\ hs = [h \in Slots |-> Idle]
  /\ now = 0
  /\ netVersion = 0
  /\ events = 0
  /\ lastData = 0
  /\ out = NoOut

\* ------------------------------------------------------ the network
\* fetch(request) settles in one of three ways: it resolves with a successful
\* response, resolves with an unsuccessful one, or rejects.
NetOutcomes == {"ok", "notok", "reject"}
\* The Date header of a response of the network: the time it was made.
NetDate == now
CanSucceed == netVersion < MaxVersion
NetSuccess(date) == NetResp(200, netVersion + 1, date)
NetFailure == NetResp(404, 0, NoDate)
\* What fetch resolves with, and whether the network can still produce it.
NetResponse(outcome) == IF outcome = "ok" THEN NetSuccess(NetDate) ELSE NetFailure
NetCan(outcome) == outcome = "ok" => CanSucceed
NetVersionAfter(outcome) == IF outcome = "ok" THEN netVersion + 1 ELSE netVersion

\* ------------------------------------------------------------ install
\* self.addEventListener('install', ...): a worker instance starts installing.
InstallEvent ==
  /\ phase \in {"parsed", "redundant"}
  /\ FreeSlots # {}
  /\ phase' = "installing"
  /\ hs' = Step(FreeSlot, [Idle EXCEPT !.kind = "install", !.pc = "open"])
  /\ out' = NoOut
  /\ UNCHANGED << lastData, cacheNames, store, now, netVersion, events >>

\* caches.open(STATIC_CACHE) resolves.
InstallOpen(h) ==
  /\ hs[h].kind = "install" /\ hs[h].pc = "open"
  /\ cacheNames' = OpenedNames(STATIC_CACHE)
  /\ hs' = Step(h, [hs[h] EXCEPT !.pc = "addAll"])
  /\ out' = NoOut
  /\ UNCHANGED << lastData, phase, store, now, netVersion, events >>

\* An addAll that would write the files it could fetch, like a loop of cache.add.
AddAllPartial(st, name, files, failing, resp) ==
  [st EXCEPT ![name] =
     [k \in {ResolveUrl(files[i]) : i \in (1..Len(files)) \ failing} |-> Entry(resp, now)]
       @@ st[name]]

\* cache.addAll(files): every file is fetched; the entries are written together,
\* and only when every fetch gave a successful response.
AddAll(st, name, files, failing, resp) ==
  IF failing = {}
  THEN [st EXCEPT ![name] =
          [k \in {ResolveUrl(files[i]) : i \in 1..Len(files)} |-> Entry(resp, now)] @@ st[name]]
  ELSE st

\* cache.addAll(CORE_FILES) settles, and with it the promise given to waitUntil.
InstallAddAll(h) ==
  /\ hs[h].kind = "install" /\ hs[h].pc = "addAll"
  /\ \E failing \in SUBSET (1..Len(CORE_FILES)) :
       /\ failing = {} => CanSucceed
       /\ store' = AddAll(store, STATIC_CACHE, CORE_FILES, failing, NetSuccess(NetDate))
       /\ netVersion' = IF failing = {} THEN netVersion + 1 ELSE netVersion
       /\ phase' = IF failing = {} THEN "installed" ELSE "redundant"
       /\ out' = [NoOut EXCEPT !.ev = IF failing = {} THEN "installed" ELSE "installFailed",
                               !.kind = "install"]
  /\ hs' = Step(h, Idle)
  /\ UNCHANGED << lastData, cacheNames, now, events >>

\* ----------------------------------------------------------- activate
\* self.addEventListener('activate', ...); install called skipWaiting().
ActivateEvent ==
  /\ phase = "installed"
  /\ FreeSlots # {}
  /\ phase' = "activating"
  /\ hs' = Step(FreeSlot, [Idle EXCEPT !.kind = "activate", !.pc = "keys", !.alone = TRUE])
  /\ out' = NoOut
  /\ UNCHANGED << lastData, cacheNames, store, now, netVersion, events >>

\* A filter that would keep the static store only.
IsOldCacheButStatic(cacheName) == cacheName # STATIC_CACHE

\* cacheName !== STATIC_CACHE && cacheName !== DYNAMIC_CACHE
IsOldCache(cacheName) == cacheName # STATIC_CACHE /\ cacheName # DYNAMIC_CACHE

\* caches.keys() resolves; caches.delete is called for every old name.
ActivateKeys(h) ==
  /\ hs[h].kind = "activate" /\ hs[h].pc = "keys"
  /\ hs' = Step(h, [hs[h] EXCEPT !.pc = "delete", !.names = cacheNames,
                                 !.pending = {n \in Range(cacheNames) : IsOldCache(n)}])
  /\ out' = NoOut
  /\ UNCHANGED << lastData, phase, cacheNames, store, now, netVersion, events >>

\* One of the caches.delete(cacheName) calls takes effect.
ActivateDelete(h) ==
  /\ hs[h].kind = "activate" /\ hs[h].pc = "delete"
  /\ \E n \in hs[h].pending :
       /\ cacheNames' = WithoutName(cacheNames, n)
       /\ store' = [store EXCEPT ![n] = EmptyStore]
       /\ hs' = Step(h, [hs[h] EXCEPT !.pending = @ \ {n}, !.deleted = @ \cup {n}])
  /\ out' = NoOut
  /\ UNCHANGED << lastData, phase, now, netVersion, events >>

\* Promise.all resolves: every delete has settled (and clients.claim()).
ActivateDone(h) ==
  /\ hs[h].kind = "activate" /\ hs[h].pc = "delete"
  /\ hs[h].pending = {}
  /\ phase' = "activated"
  /\ hs' = Step(h, Idle)
  /\ out' = [NoOut EXCEPT !.ev = "activated", !.kind = "activate", !.names = hs[h].names,
                          !.alone = hs[h].alone, !.deleted = hs[h].deleted]
  /\ UNCHANGED << lastData, cacheNames, store, now, netVersion, events >>

\* -------------------------------------------------------------- fetch
\* The strategy the fetch listener answers a GET request with.
Strategy(request) ==
  LET url == ParseUrl(request.url)
  IN IF Includes(CORE_FILES, request.url) \/ Includes(CORE_FILES, url.pathname)
     THEN "cacheFirst"
     ELSE IF url.origin = CdnOrigin THEN "staleWhileRevalidate"
     ELSE IF url.origin = SelfOrigin THEN "networkFirst"
     ELSE "cacheFirst"

\* The await a strategy first suspends at.
FirstPc(kind) ==
  CASE kind = "cacheFirst" -> "match"
    [] kind = "networkFirst" -> "fetch"
    [] kind = "staleWhileRevalidate" -> "open"

\* The handlers in flight that answer a request for the URL of the request.
SameUrl(request) == {k \in Slots : hs[k].kind # "idle" /\ hs[k].req.url = request.url}

\* What the strategy of the request would find if it looked the request up now.
Lookup(request) ==
  IF Strategy(request) = "staleWhileRevalidate" THEN CacheMatch(DYNAMIC_CACHE, request.url)
  ELSE CachesMatch(request.url)

\* respondWith(strategy(request)): the async function is called and runs in a
\* free slot, as handler r. Every handler in flight for the same URL now shares
\* the URL with another.
Dispatch(request, r) ==
  [k \in Slots |->
     IF k = FreeSlot THEN [r EXCEPT !.shared = (SameUrl(request) # {})]
     ELSE [hs[k] EXCEPT !.alone = FALSE, !.shared = @ \/ k \in SameUrl(request)]]

\* self.addEventListener('fetch', ...): a request that is not a GET is left to
\* the browser; a GET is answered by one strategy.
FetchEvent(request) ==
  /\ phase = "activated"
  /\ IF request.method # "GET"
     THEN /\ out' = [NoOut EXCEPT !.ev = "bypass", !.req = request]
          /\ hs' = hs
          /\ events' = events
     ELSE /\ FreeSlots # {} /\ events < MaxEvents
          /\ events' = events + 1
          /\ hs' = Dispatch(request, [Idle EXCEPT !.kind = Strategy(request), !.req = request,
                                                  !.pc = FirstPc(Strategy(request)),
                                                  !.seen = Lookup(request)])
          /\ out' = [NoOut EXCEPT !.ev = "dispatch", !.kind = Strategy(request),
                                  !.req = request]
  /\ UNCHANGED << lastData, phase, cacheNames, store, now, netVersion >>

\* ---------------------------------------------------------- cacheFirst
\* A cacheFirst that would not look at what caches.match found: it always goes
\* on to fetch.
CacheFirstMatchRefetch(h) ==
  /\ hs[h].kind = "cacheFirst" /\ hs[h].pc = "match"
  /\ hs' = Step(h, [hs[h] EXCEPT !.pc = "fetch"])
  /\ out' = NoOut
  /\ UNCHANGED << lastData, phase, cacheNames, store, now, netVersion, events >>

\* await caches.match(request): a stored copy is returned, else fetch is called.
CacheFirstMatch(h) ==
  /\ hs[h].kind = "cacheFirst" /\ hs[h].pc = "match"
  /\ LET cachedResponse == CachesMatch(hs[h].req.url)
     IN IF cachedResponse # NoResp
        THEN /\ hs' = Step(h, Idle)
             /\ out' = Respond(h, cachedResponse, FALSE)
        ELSE /\ hs' = Step(h, [hs[h] EXCEPT !.pc = "fetch"])
             /\ out' = NoOut
  /\ UNCHANGED << lastData, phase, cacheNames, store, now, netVersion, events >>

\* await fetch(request) settles. A successful response goes on to be stored, an
\* unsuccessful one is returned; a rejection enters the catch block.
CacheFirstFetch(h) ==
  /\ hs[h].kind = "cacheFirst" /\ hs[h].pc = "fetch"
  /\ \E outcome \in NetOutcomes :
       CASE outcome # "reject" /\ Ok(NetResponse(outcome)) ->
              /\ NetCan(outcome)
              /\ netVersion' = NetVersionAfter(outcome)
              /\ hs' = Step(h, [hs[h] EXCEPT !.pc = "open", !.net = NetResponse(outcome)])
              /\ out' = NoOut
         [] outcome # "reject" /\ ~Ok(NetResponse(outcome)) ->
              /\ NetCan(outcome)
              /\ netVersion' = NetVersionAfter(outcome)
              /\ hs' = Step(h, Idle)
              /\ out' = Respond(h, NetResponse(outcome), FALSE)
         [] outcome = "reject" ->
              /\ netVersion' = netVersion
              /\ IF hs[h].req.mode = "navigate"
                 THEN /\ hs' = Step(h, [hs[h] EXCEPT !.pc = "fallback"])
                      /\ out' = NoOut
                 ELSE /\ hs' = Step(h, Idle)
                      /\ out' = Respond(h, ErrorResp(CacheFirstError, now), TRUE)
  /\ UNCHANGED << lastData, phase, cacheNames, store, now, events >>

\* await caches.open(STATIC_CACHE) resolves; cache.put is called, not awaited,
\* and the network response is returned.
CacheFirstOpen(h) ==
  /\ hs[h].kind = "cacheFirst" /\ hs[h].pc = "open"
  /\ cacheNames' = OpenedNames(STATIC_CACHE)
  /\ hs' = Step(h, [hs[h] EXCEPT !.pc = "put", !.responded = TRUE])
  /\ out' = Respond(h, hs[h].net, FALSE)
  /\ UNCHANGED << lastData, phase, store, now, netVersion, events >>

\* The cache.put(request, networkResponse.clone()) called by cacheFirst takes effect.
CacheFirstPut(h) ==
  /\ hs[h].kind = "cacheFirst" /\ hs[h].pc = "put"
  /\ store' = StorePut(store, STATIC_CACHE, hs[h].req.url, hs[h].net)
  /\ hs' = Step(h, Idle)
  /\ out' = Stored(h)
  /\ UNCHANGED << lastData, phase, cacheNames, now, netVersion, events >>

\* -------------------------------------------------------- networkFirst
\* await fetch(request) settles. A rejection enters the catch block, which
\* first awaits caches.match(request).
NetworkFirstFetch(h) ==
  /\ hs[h].kind = "networkFirst" /\ hs[h].pc = "fetch"
  /\ \E outcome \in NetOutcomes :
       CASE outcome # "reject" /\ Ok(NetResponse(outcome)) ->
              /\ NetCan(outcome)
              /\ netVersion' = NetVersionAfter(outcome)
              /\ hs' = Step(h, [hs[h] EXCEPT !.pc = "open", !.net = NetResponse(outcome)])
              /\ out' = NoOut
         [] outcome # "reject" /\ ~Ok(NetResponse(outcome)) ->
              /\ NetCan(outcome)
              /\ netVersion' = NetVersionAfter(outcome)
              /\ hs' = Step(h, Idle)
              /\ out' = Respond(h, NetResponse(outcome), FALSE)
         [] outcome = "reject" ->
              /\ netVersion' = netVersion
              /\ hs' = Step(h, [hs[h] EXCEPT !.pc = "match"])
              /\ out' = NoOut
  /\ UNCHANGED << lastData, phase, cacheNames, store, now, events >>

\* await caches.open(DYNAMIC_CACHE) resolves; cache.put is called, not awaited,
\* and the network response is returned.
NetworkFirstOpen(h) ==
  /\ hs[h].kind = "networkFirst" /\ hs[h].pc = "open"
  /\ cacheNames' = OpenedNames(DYNAMIC_CACHE)
  /\ hs' = Step(h, [hs[h] EXCEPT !.pc = "put", !.responded = TRUE])
  /\ out' = Respond(h, hs[h].net, FALSE)
  /\ UNCHANGED << lastData, phase, store, now, netVersion, events >>

\* The cache.put(request, networkResponse.clone()) called by networkFirst takes effect.
NetworkFirstPut(h) ==
  /\ hs[h].kind = "networkFirst" /\ hs[h].pc = "put"
  /\ store' = StorePut(store, DYNAMIC_CACHE, hs[h].req.url, hs[h].net)
  /\ hs' = Step(h, Idle)
  /\ out' = Stored(h)
  /\ UNCHANGED << lastData, phase, cacheNames, now, netVersion, events >>

\* A catch block that would use the fallback whatever the mode of the request.
NetworkFirstAfterMatchAnyMode(request, cachedResponse) ==
  IF cachedResponse # NoResp THEN "return" ELSE "fallback"

\* What the catch block of networkFirst does once caches.match(request) resolved
\* with cachedResponse: "return" it, go on to the "fallback", or return the "error".
NetworkFirstAfterMatch(request, cachedResponse) ==
  IF cachedResponse # NoResp THEN "return"
  ELSE IF request.mode = "navigate" THEN "fallback"
  ELSE "error"

\* catch: await caches.match(request) resolves.
NetworkFirstMatch(h) ==
  /\ hs[h].kind = "networkFirst" /\ hs[h].pc = "match"
  /\ LET cachedResponse == CachesMatch(hs[h].req.url)
         next == NetworkFirstAfterMatch(hs[h].req, cachedResponse)
     IN CASE next = "return" ->
               /\ hs' = Step(h, Idle)
               /\ out' = Respond(h, cachedResponse, TRUE)
          [] next = "fallback" ->
               /\ hs' = Step(h, [hs[h] EXCEPT !.pc = "fallback"])
               /\ out' = NoOut
          [] next = "error" ->
               /\ hs' = Step(h, Idle)
               /\ out' = Respond(h, ErrorResp(NetworkFirstError, now), TRUE)
  /\ UNCHANGED << lastData, phase, cacheNames, store, now, netVersion, events >>

\* The message of the error payload a strategy synthesizes.
ErrorMessage(kind) == IF kind = "cacheFirst" THEN CacheFirstError ELSE NetworkFirstError

\* catch of cacheFirst and of networkFirst, navigation request:
\* await caches.match('./index.html') resolves; the fallback is returned if it
\* is stored, the error payload otherwise.
FallbackMatch(h) ==
  /\ hs[h].kind \in {"cacheFirst", "networkFirst"} /\ hs[h].pc = "fallback"
  /\ LET fallbackResponse == CachesMatch(ResolveUrl(FALLBACK_FILE))
     IN out' = Respond(h, IF fallbackResponse # NoResp THEN fallbackResponse
                          ELSE ErrorResp(ErrorMessage(hs[h].kind), now), TRUE)
  /\ hs' = Step(h, Idle)
  /\ UNCHANGED << lastData, phase, cacheNames, store, now, netVersion, events >>

\* ------------------------------------------------ staleWhileRevalidate
\* await caches.open(DYNAMIC_CACHE) resolves.
StaleOpen(h) ==
  /\ hs[h].kind = "staleWhileRevalidate" /\ hs[h].pc = "open"
  /\ cacheNames' = OpenedNames(DYNAMIC_CACHE)
  /\ hs' = Step(h, [hs[h] EXCEPT !.pc = "match"])
  /\ out' = NoOut
  /\ UNCHANGED << lastData, phase, store, now, netVersion, events >>

\* The store(s) staleWhileRevalidate looks the request up in: cache.match(request).
StaleLookup(key) == CacheMatch(DYNAMIC_CACHE, key)

\* await cache.match(request) resolves; fetch is called; a stored copy is
\* returned at once, otherwise the promise of the network response is.
StaleMatch(h) ==
  /\ hs[h].kind = "staleWhileRevalidate" /\ hs[h].pc = "match"
  /\ LET cachedResponse == StaleLookup(hs[h].req.url)
     IN /\ hs' = Step(h, [hs[h] EXCEPT !.pc = "fetch", !.cached = cachedResponse,
                                       !.responded = (cachedResponse # NoResp)])
        /\ out' = IF cachedResponse # NoResp THEN Respond(h, cachedResponse, FALSE) ELSE NoOut
  /\ UNCHANGED << lastData, phase, cacheNames, store, now, netVersion, events >>

\* What the promise of staleWhileRevalidate's fetch resolves with when fetch rejects:
\* .catch(error => { ...; return null; })
StaleCatch(time) == NullResp

\* fetch(request) settles: a successful response is put (not awaited) and
\* returned, an unsuccessful one is returned, a rejection becomes null. The page
\* gets the value only if no stored copy was returned before.
StaleFetch(h) ==
  /\ hs[h].kind = "staleWhileRevalidate" /\ hs[h].pc = "fetch"
  /\ \E outcome \in NetOutcomes :
       CASE outcome # "reject" /\ Ok(NetResponse(outcome)) ->
              /\ NetCan(outcome)
              /\ netVersion' = NetVersionAfter(outcome)
              /\ hs' = Step(h, [hs[h] EXCEPT !.pc = "put", !.net = NetResponse(outcome),
                                             !.responded = TRUE])
              /\ out' = IF hs[h].responded THEN NoOut ELSE Respond(h, NetResponse(outcome), FALSE)
         [] outcome # "reject" /\ ~Ok(NetResponse(outcome)) ->
              /\ NetCan(outcome)
              /\ netVersion' = NetVersionAfter(outcome)
              /\ hs' = Step(h, Idle)
              /\ out' = IF hs[h].responded THEN NoOut ELSE Respond(h, NetResponse(outcome), FALSE)
         [] outcome = "reject" ->
              /\ netVersion' = netVersion
              /\ hs' = Step(h, Idle)
              /\ out' = IF hs[h].responded THEN NoOut ELSE Respond(h, StaleCatch(now), TRUE)
  /\ UNCHANGED << lastData, phase, cacheNames, store, now, events >>

\* A staleWhileRevalidate that would store a response only when the store has
\* no entry for the request: an entry, once stored, is never refreshed.
StalePutIfAbsent(h) ==
  /\ hs[h].kind = "staleWhileRevalidate" /\ hs[h].pc = "put"
  /\ store' = IF hs[h].req.url \in DOMAIN store[DYNAMIC_CACHE] THEN store
              ELSE StorePut(store, DYNAMIC_CACHE, hs[h].req.url, hs[h].net)
  /\ hs' = Step(h, Idle)
  /\ out' = Stored(h)
  /\ UNCHANGED << lastData, phase, cacheNames, now, netVersion, events >>

\* The cache.put(request, networkResponse.clone()) called by staleWhileRevalidate
\* takes effect.
StalePut(h) ==
  /\ hs[h].kind = "staleWhileRevalidate" /\ hs[h].pc = "put"
  /\ store' = StorePut(store, DYNAMIC_CACHE, hs[h].req.url, hs[h].net)
  /\ hs' = Step(h, Idle)
  /\ out' = Stored(h)
  /\ UNCHANGED << lastData, phase, cacheNames, now, netVersion, events >>

\* ------------------------------------------------------------ messages
MessageTypes == {"SKIP_WAITING", "CACHE_ATTENDANCE_DATA", "GET_CACHE_STATUS", "PING"}

\* self.addEventListener('message', ...): a page posts {type, data} to the worker.
MessageEvent(type, data) ==
  /\ phase \in {"installing", "installed", "activating", "activated"}
  /\ CASE type = "CACHE_ATTENDANCE_DATA" ->
            /\ FreeSlots # {} /\ events < MaxEvents
            /\ events' = events + 1
            /\ lastData' = data
            /\ hs' = Step(FreeSlot, [Idle EXCEPT !.kind = "cacheAttendanceData", !.pc = "open",
                                                 !.data = data])
       [] type = "GET_CACHE_STATUS" ->
            /\ FreeSlots # {} /\ events < MaxEvents
            /\ events' = events + 1
            /\ lastData' = lastData
            /\ hs' = Step(FreeSlot, [Idle EXCEPT !.kind = "getCacheStatus", !.pc = "keys"])
       [] OTHER -> hs' = hs /\ events' = events /\ lastData' = lastData
  /\ out' = [NoOut EXCEPT !.ev = "message", !.kind = type]
  /\ UNCHANGED << phase, cacheNames, store, now, netVersion >>

\* new Response(JSON.stringify(data), {headers: {'Content-Type': 'application/json'}})
DataResp(data) == [NoResp EXCEPT !.src = "synth", !.status = 200, !.payload = data]

\* cacheAttendanceData: await caches.open(DYNAMIC_CACHE) resolves.
CacheDataOpen(h) ==
  /\ hs[h].kind = "cacheAttendanceData" /\ hs[h].pc = "open"
  /\ cacheNames' = OpenedNames(DYNAMIC_CACHE)
  /\ hs' = Step(h, [hs[h] EXCEPT !.pc = "put"])
  /\ out' = NoOut
  /\ UNCHANGED << lastData, phase, store, now, netVersion, events >>

\* cacheAttendanceData: await cache.put('attendance-data-backup', response) resolves.
CacheDataPut(h) ==
  /\ hs[h].kind = "cacheAttendanceData" /\ hs[h].pc = "put"
  /\ store' = StorePut(store, DYNAMIC_CACHE, ResolveUrl(BACKUP_KEY), DataResp(hs[h].data))
  /\ hs' = Step(h, Idle)
  /\ out' = [NoOut EXCEPT !.ev = "cached", !.kind = "cacheAttendanceData"]
  /\ UNCHANGED << lastData, phase, cacheNames, now, netVersion, events >>

\* getCacheStatus: await caches.keys() resolves.
StatusKeys(h) ==
  /\ hs[h].kind = "getCacheStatus" /\ hs[h].pc = "keys"
  /\ hs' = Step(h, [hs[h] EXCEPT !.pc = "open", !.names = cacheNames, !.idx = 1])
  /\ out' = NoOut
  /\ UNCHANGED << lastData, phase, cacheNames, store, now, netVersion, events >>

\* getCacheStatus, in the loop: await caches.open(cacheName) resolves.
StatusOpen(h) ==
  /\ hs[h].kind = "getCacheStatus" /\ hs[h].pc = "open"
  /\ hs[h].idx <= Len(hs[h].names)
  /\ cacheNames' = OpenedNames(hs[h].names[hs[h].idx])
  /\ hs' = Step(h, [hs[h] EXCEPT !.pc = "count"])
  /\ out' = NoOut
  /\ UNCHANGED << lastData, phase, store, now, netVersion, events >>

\* getCacheStatus, in the loop: await cache.keys() resolves;
\* status[cacheName] = keys.length.
StatusCount(h) ==
  /\ hs[h].kind = "getCacheStatus" /\ hs[h].pc = "count"
  /\ LET cacheName == hs[h].names[hs[h].idx]
     IN hs' = Step(h, [hs[h] EXCEPT !.pc = "open", !.idx = @ + 1,
                          !.status = (cacheName :> Cardinality(DOMAIN store[cacheName])) @@ @])
  /\ out' = NoOut
  /\ UNCHANGED << lastData, phase, cacheNames, store, now, netVersion, events >>

\* getCacheStatus returns; event.ports[0].postMessage(status).
StatusDone(h) ==
  /\ hs[h].kind = "getCacheStatus" /\ hs[h].pc = "open"
  /\ hs[h].idx > Len(hs[h].names)
  /\ hs' = Step(h, Idle)
  /\ out' = [NoOut EXCEPT !.ev = "status", !.kind = "getCacheStatus", !.names = hs[h].names,
                          !.status = hs[h].status]
  /\ UNCHANGED << lastData, phase, cacheNames, store, now, netVersion, events >>

\* ----------------------------------------------------------------- sync
\* self.addEventListener('sync', ...) with the tag 'attendance-sync':
\* syncAttendanceData posts SYNC_ATTENDANCE to the open pages; no store is touched.
SyncEvent ==
  /\ phase = "activated"
  /\ out' = [NoOut EXCEPT !.ev = "sync", !.kind = "syncAttendanceData"]
  /\ UNCHANGED << lastData, phase, cacheNames, store, hs, now, netVersion, events >>

\* --------------------------------------------------- notification click
\* The actions a notification of the application offers ("": the body was clicked).
NotificationActions == {"", "view"}

\* client.url of the windows that can be open: absolute URLs.
WindowUrls == {SelfOrigin \o "/", SelfOrigin \o "/index.html?action=view"}

\* const urlToOpen = action ? `./index.html?action=${action}` : './';
UrlToOpen(action) == IF action # "" THEN "./index.html?action=" \o action ELSE "./"

\* self.addEventListener('notificationclick', ...): the notification is closed
\* and clients.matchAll is called.
NotificationClickEvent(action) ==
  /\ phase = "activated"
  /\ FreeSlots # {} /\ events < MaxEvents
  /\ events' = events + 1
  /\ hs' = Step(FreeSlot, [Idle EXCEPT !.kind = "notificationclick", !.pc = "matchAll",
                                       !.action = action])
  /\ out' = NoOut
  /\ UNCHANGED << lastData, phase, cacheNames, store, now, netVersion >>

\* The windows the loop focuses: the first client with client.url === urlToOpen
\* (every window client has focus).
ClientsToFocus(clients, urlToOpen) == {c \in clients : c = urlToOpen}

\* clients.matchAll({type: 'window', includeUncontrolled: true}) resolves with
\* the open windows: one at urlToOpen is focused, otherwise urlToOpen is opened.
ClickMatchAll(h) ==
  /\ hs[h].kind = "notificationclick" /\ hs[h].pc = "matchAll"
  /\ \E clients \in SUBSET WindowUrls :
       LET urlToOpen == UrlToOpen(hs[h].action)
           found == ClientsToFocus(clients, urlToOpen)
       IN out' = [NoOut EXCEPT !.ev = "clicked", !.kind = "notificationclick",
                               !.target = urlToOpen, !.clients = clients,
                               !.focused = found,
                               !.opened = IF found = {} THEN {urlToOpen} ELSE {}]
  /\ hs' = Step(h, Idle)
  /\ UNCHANGED << lastData, phase, cacheNames, store, now, netVersion, events >>

\* ------------------------------------------------------------- cleanup
\* self.addEventListener('periodicsync', ...) with event.tag === 'cleanup'.
PeriodicSyncEvent ==
  /\ phase = "activated"
  /\ FreeSlots # {} /\ events < MaxEvents
  /\ events' = events + 1
  /\ hs' = Step(FreeSlot, [Idle EXCEPT !.kind = "performCleanup", !.pc = "open",
                                       !.alone = TRUE])
  /\ out' = NoOut
  /\ UNCHANGED << lastData, phase, cacheNames, store, now, netVersion >>

\* await caches.open(DYNAMIC_CACHE) resolves.
CleanupOpen(h) ==
  /\ hs[h].kind = "performCleanup" /\ hs[h].pc = "open"
  /\ cacheNames' = OpenedNames(DYNAMIC_CACHE)
  /\ hs' = Step(h, [hs[h] EXCEPT !.pc = "keys"])
  /\ out' = NoOut
  /\ UNCHANGED << lastData, phase, store, now, netVersion, events >>

\* await cache.keys() resolves; thirtyDaysAgo = Date.now() - (30 * 24 * 60 * 60 * 1000).
CleanupKeys(h) ==
  /\ hs[h].kind = "performCleanup" /\ hs[h].pc = "keys"
  /\ hs' = Step(h, [hs[h] EXCEPT !.pc = "loop", !.pending = DOMAIN store[DYNAMIC_CACHE],
                                 !.cutoff = now - ThirtyDays])
  /\ out' = NoOut
  /\ UNCHANGED << lastData, phase, cacheNames, store, now, netVersion, events >>

\* A comparison that would spare the entries dated just before the threshold.
IsExpiredLate(date, thirtyDaysAgo) == date # NoDate /\ date + 1 < thirtyDaysAgo

\* if (dateHeader) { ... if (responseDate < thirtyDaysAgo) ... }
IsExpired(date, thirtyDaysAgo) == date # NoDate /\ date < thirtyDaysAgo

\* In the loop: await cache.match(request) resolves. Reading the headers of an
\* entry that is gone throws, and the catch block ends the cleanup. The
\* requests are visited one by one; the model leaves their order open.
CleanupMatch(h) ==
  /\ hs[h].kind = "performCleanup" /\ hs[h].pc = "loop"
  /\ \E request \in hs[h].pending :
       LET response == CacheMatch(DYNAMIC_CACHE, request)
       IN IF response = NoResp
          THEN /\ hs' = Step(h, Idle)
               /\ out' = [NoOut EXCEPT !.ev = "cleanupFailed", !.kind = "performCleanup"]
          ELSE /\ hs' = Step(h, IF IsExpired(response.date, hs[h].cutoff)
                                THEN [hs[h] EXCEPT !.pc = "delete", !.cur = request]
                                ELSE [hs[h] EXCEPT !.pending = @ \ {request}])
               /\ out' = NoOut
  /\ UNCHANGED << lastData, phase, cacheNames, store, now, netVersion, events >>

\* In the loop: await cache.delete(request) resolves.
CleanupDelete(h) ==
  /\ hs[h].kind = "performCleanup" /\ hs[h].pc = "delete"
  /\ store' = StoreDelete(store, DYNAMIC_CACHE, hs[h].cur)
  /\ hs' = Step(h, [hs[h] EXCEPT !.pc = "loop", !.cur = "", !.pending = @ \ {hs[h].cur},
                                 !.deleted = @ \cup {hs[h].cur}])
  /\ out' = NoOut
  /\ UNCHANGED << lastData, phase, cacheNames, now, netVersion, events >>

\* The loop is over: 'SW: Cache cleanup completed'.
CleanupDone(h) ==
  /\ hs[h].kind = "performCleanup" /\ hs[h].pc = "loop"
  /\ hs[h].pending = {}
  /\ hs' = Step(h, Idle)
  /\ out' = [NoOut EXCEPT !.ev = "cleanup", !.kind = "performCleanup", !.alone = hs[h].alone,
                          !.cutoff = hs[h].cutoff, !.deleted = hs[h].deleted]
  /\ UNCHANGED << lastData, phase, cacheNames, store, now, netVersion, events >>

\* --------------------------------------------------------------- clock
\* Time passes. The instants of the model are those a comparison with
\* thirtyDaysAgo tells apart: 0, thirty days later, a second after that, ...
NextInstant(time) == IF time % (ThirtyDays + 1) = 0 THEN time + ThirtyDays ELSE time + 1

Tick ==
  /\ phase = "activated"
  /\ NextInstant(now) <= MaxClock
  /\ now' = NextInstant(now)
  /\ out' = NoOut
  /\ UNCHANGED << lastData, phase, cacheNames, store, hs, netVersion, events >>

\* ------------------------------------------------------- specification
Next ==
  \/ InstallEvent
  \/ ActivateEvent
  \/ \E request \in Requests : FetchEvent(request)
  \/ \E type \in MessageTypes, data \in 1..MaxData : MessageEvent(type, data)
  \/ PeriodicSyncEvent
  \/ SyncEvent
  \/ Tick
  \/ \E h \in Slots :
       \/ InstallOpen(h) \/ InstallAddAll(h)
       \/ ActivateKeys(h) \/ ActivateDelete(h) \/ ActivateDone(h)
       \/ CacheFirstMatch(h) \/ CacheFirstFetch(h) \/ CacheFirstOpen(h) \/ CacheFirstPut(h)
       \/ NetworkFirstFetch(h) \/ NetworkFirstOpen(h) \/ NetworkFirstPut(h)
       \/ NetworkFirstMatch(h) \/ FallbackMatch(h)
       \/ StaleOpen(h) \/ StaleMatch(h) \/ StaleFetch(h) \/ StalePut(h)
       \/ CacheDataOpen(h) \/ CacheDataPut(h)
       \/ StatusKeys(h) \/ StatusOpen(h) \/ StatusCount(h) \/ StatusDone(h)
       \/ CleanupOpen(h) \/ CleanupKeys(h) \/ CleanupMatch(h)
       \/ CleanupDelete(h) \/ CleanupDone(h)
       \/ ClickMatchAll(h)
  \/ \E action \in NotificationActions : NotificationClickEvent(action)

Spec == Init /\ [][Next]_vars

\* The worker's lifecycle and its handlers, by what they work on.
Lifecycle ==
  \/ InstallEvent
  \/ ActivateEvent
  \/ \E h \in Slots :
       \/ InstallOpen(h) \/ InstallAddAll(h)
       \/ ActivateKeys(h) \/ ActivateDelete(h) \/ ActivateDone(h)

CacheFirstSteps ==
  \E h \in Slots :
    CacheFirstMatch(h) \/ CacheFirstFetch(h) \/ CacheFirstOpen(h) \/ CacheFirstPut(h)

NetworkFirstSteps ==
  \E h \in Slots :
    \/ NetworkFirstFetch(h) \/ NetworkFirstOpen(h) \/ NetworkFirstPut(h)
    \/ NetworkFirstMatch(h) \/ FallbackMatch(h)

StaleSteps ==
  \E h \in Slots : StaleOpen(h) \/ StaleMatch(h) \/ StaleFetch(h) \/ StalePut(h)

\* The requests the fetch listener answers with a strategy.
RequestsFor(kind) == {r \in Requests : r.method = "GET" /\ Strategy(r) = kind}

\* The worker answering the requests of its pages.
NextFetch ==
  \/ Lifecycle
  \/ \E request \in Requests : FetchEvent(request)
  \/ CacheFirstSteps
  \/ NetworkFirstSteps
  \/ StaleSteps

SpecFetch == Init /\ [][NextFetch]_vars

\* The worker answering only the requests it handles cache first.
NextCacheFirst ==
  \/ Lifecycle
  \/ \E request \in RequestsFor("cacheFirst") : FetchEvent(request)
  \/ CacheFirstSteps

SpecCacheFirst == Init /\ [][NextCacheFirst]_vars

\* The worker answering only the requests it handles network first.
NextNetworkFirst ==
  \/ Lifecycle
  \/ \E request \in RequestsFor("networkFirst") : FetchEvent(request)
  \/ NetworkFirstSteps

SpecNetworkFirst == Init /\ [][NextNetworkFirst]_vars

\* The worker answering the requests it handles network first while time passes.
NextOffline ==
  \/ Lifecycle
  \/ \E request \in RequestsFor("networkFirst") : FetchEvent(request)
  \/ NetworkFirstSteps
  \/ Tick

SpecOffline == Init /\ [][NextOffline]_vars

\* The worker answering only the requests it handles stale-while-revalidate.
NextStale ==
  \/ Lifecycle
  \/ \E request \in RequestsFor("staleWhileRevalidate") : FetchEvent(request)
  \/ StaleSteps

SpecStale == Init /\ [][NextStale]_vars

CacheDataSteps == \E h \in Slots : CacheDataOpen(h) \/ CacheDataPut(h)

StatusSteps ==
  \E h \in Slots : StatusKeys(h) \/ StatusOpen(h) \/ StatusCount(h) \/ StatusDone(h)

CleanupSteps ==
  \E h \in Slots :
    \/ CleanupOpen(h) \/ CleanupKeys(h) \/ CleanupMatch(h)
    \/ CleanupDelete(h) \/ CleanupDone(h)

\* The worker filling the dynamic store (network first responses, attendance
\* backups) and cleaning it up as time passes.
NextCleanup ==
  \/ Lifecycle
  \/ FetchEvent(IconRequest)
  \/ \E h \in Slots :
       \/ NetworkFirstFetch(h) \/ NetworkFirstOpen(h) \/ NetworkFirstPut(h)
       \/ NetworkFirstMatch(h)
  \/ MessageEvent("CACHE_ATTENDANCE_DATA", 1)
  \/ CacheDataSteps
  \/ PeriodicSyncEvent
  \/ CleanupSteps
  \/ Tick

SpecCleanup == Init /\ [][NextCleanup]_vars

\* The worker keeping a backup while a page reads it back through the worker,
\* syncs and cleanups run and time passes.
NextKeepBackup ==
  \/ Lifecycle
  \/ MessageEvent("CACHE_ATTENDANCE_DATA", 1)
  \/ CacheDataSteps
  \/ FetchEvent(BackupRequest)
  \/ \E h \in Slots :
       \/ NetworkFirstFetch(h) \/ NetworkFirstOpen(h) \/ NetworkFirstPut(h)
       \/ NetworkFirstMatch(h)
  \/ SyncEvent
  \/ PeriodicSyncEvent
  \/ CleanupSteps
  \/ Tick

SpecKeepBackup == Init /\ [][NextKeepBackup]_vars

\* A page waits for the reply to GET_CACHE_STATUS before it asks again.
StatusPending == \E h \in Slots : hs[h].kind = "getCacheStatus"

StatusQuery == ~StatusPending /\ MessageEvent("GET_CACHE_STATUS", 0)

\* The worker installing and activating while a page backs its data up and
\* asks for the status of the stores.
NextMessages ==
  \/ Lifecycle
  \/ MessageEvent("CACHE_ATTENDANCE_DATA", 1)
  \/ StatusQuery
  \/ CacheDataSteps
  \/ StatusSteps

SpecMessages == Init /\ [][NextMessages]_vars

\* The worker answering requests for three resources, one per strategy, any two
\* of them at once.
ConcurrentRequests == {FontRequest, ActionRequest, XlsxRequest}

NextConcurrent ==
  \/ Lifecycle
  \/ \E request \in ConcurrentRequests : FetchEvent(request)
  \/ CacheFirstSteps
  \/ NetworkFirstSteps
  \/ StaleSteps

SpecConcurrent == Init /\ [][NextConcurrent]_vars

\* The worker while a page backs up its attendance data again and again.
NextBackup ==
  \/ Lifecycle
  \/ \E data \in 1..MaxData : MessageEvent("CACHE_ATTENDANCE_DATA", data)
  \/ CacheDataSteps

SpecBackup == Init /\ [][NextBackup]_vars

\* The worker while the user clicks its notifications.
NextNotifications ==
  \/ Lifecycle
  \/ \E action \in NotificationActions : NotificationClickEvent(action)
  \/ \E h \in Slots : ClickMatchAll(h)

SpecNotifications == Init /\ [][NextNotifications]_vars

\* The event loop runs every settled promise's continuation: a fetch that
\* staleWhileRevalidate started settles, and a put it called takes effect.
SpecStaleFair ==
  SpecStale /\ \A h \in Slots : WF_vars(StaleFetch(h)) /\ WF_vars(StalePut(h))

\* ================================================================ claims
\* The copies of a URL the stores hold, as a match would return them.
StoredCopies(url) ==
  {CacheMatch(name, url) : name \in {n \in Range(cacheNames) : url \in DOMAIN store[n]}}

IsStrategy(kind) == kind \in {"cacheFirst", "networkFirst", "staleWhileRevalidate"}

\* The last step gave the page the response of a strategy whose fetch had rejected.
RespondedAfterFailure ==
  out.ev = "respond" /\ IsStrategy(out.kind) /\ out.failed

\* C1: whenever a strategy answers a request whose network fetch failed while
\* some store (static or dynamic) holds a copy of the request, the answer is
\* that stored copy, never a 503 payload and never null.
C1_StoredCopyReturned ==
  (RespondedAfterFailure /\ StoredCopies(out.req.url) # {})
    => out.resp \in StoredCopies(out.req.url)

\* A synthesized response with status 503 and a body {error, offline: true, timestamp}.
IsErrorPayload(resp) ==
  /\ resp.src = "synth" /\ resp.status = 503
  /\ resp.error # "" /\ resp.offline = TRUE /\ resp.timestamp \in 0..MaxClock

FallbackUrl == ResolveUrl(FALLBACK_FILE)
\* The stored './index.html' can stand in for the request.
UsableFallback(request) ==
  request.mode = "navigate" /\ StoredCopies(FallbackUrl) # {}

\* C2: whenever a strategy answers a request whose network fetch failed while no
\* store holds a copy of it nor a usable fallback, the answer is a synthesized
\* response with status 503 and body {error, offline: true, timestamp}; it is
\* never null.
C2_ErrorPayloadReturned ==
  (RespondedAfterFailure /\ StoredCopies(out.req.url) = {} /\ ~UsableFallback(out.req))
    => IsErrorPayload(out.resp)

\* Handler h takes a step: its record changes in more than the notes of what
\* the other handlers did meanwhile.
Moved(h) ==
  [hs'[h] EXCEPT !.alone = FALSE, !.shared = FALSE] # [hs[h] EXCEPT !.alone = FALSE, !.shared = FALSE]

\* The step handler h takes from the await named pc.
StepsFrom(h, kind, pc) ==
  hs[h].kind = kind /\ hs[h].pc = pc /\ Moved(h)

\* C5, as claimed: networkFirst answers a failed fetch with the first available
\* of the stored copy, the stored './index.html' and the 503 payload, whatever
\* the mode of the request.
C5_FallbackWhateverMode ==
  (RespondedAfterFailure /\ out.kind = "networkFirst")
    => IF StoredCopies(out.req.url) # {} THEN out.resp \in StoredCopies(out.req.url)
       ELSE IF StoredCopies(FallbackUrl) # {} THEN out.resp \in StoredCopies(FallbackUrl)
       ELSE IsErrorPayload(out.resp)

\* C5, amended: after a failed fetch networkFirst looks the request up and
\* returns the stored copy if there is one; if there is none, a request of mode
\* 'navigate' gets the stored './index.html' if it is stored and the 503 payload
\* otherwise, and a request of any other mode gets the 503 payload, also when
\* './index.html' is stored.
C5_FallbackForNavigation ==
  [][\A h \in Slots :
       /\ StepsFrom(h, "networkFirst", "match") =>
            IF CachesMatch(hs[h].req.url) # NoResp
            THEN out' = Respond(h, CachesMatch(hs[h].req.url), TRUE)
            ELSE IF hs[h].req.mode = "navigate"
            THEN out'.ev = "none" /\ hs'[h].pc = "fallback"
            ELSE out'.ev = "respond" /\ out'.req = hs[h].req /\ IsErrorPayload(out'.resp)
       /\ StepsFrom(h, "networkFirst", "fallback") =>
            /\ out'.ev = "respond" /\ out'.req = hs[h].req
            /\ IF CachesMatch(FallbackUrl) # NoResp
               THEN out'.resp = CachesMatch(FallbackUrl)
               ELSE IsErrorPayload(out'.resp)
  ]_vars

\* C5 witness: a request that is no navigation was answered with the 503
\* payload although './index.html' is stored.
C5_Witness ==
  /\ RespondedAfterFailure /\ out.kind = "networkFirst"
  /\ out.req.mode # "navigate"
  /\ StoredCopies(out.req.url) = {} /\ StoredCopies(FallbackUrl) # {}
  /\ IsErrorPayload(out.resp)

\* C6: cacheFirst fetches only when no store holds a copy of the request. With
\* a stored copy its lookup returns that copy, no fetch is issued and no store
\* changes; without one it fetches, and the response the network gives is the
\* response it returns.
C6_CacheFirstFetchesOnlyOnMiss ==
  [][\A h \in Slots :
       /\ StepsFrom(h, "cacheFirst", "match") =>
            IF StoredCopies(hs[h].req.url) # {}
            THEN /\ out'.ev = "respond" /\ out'.req = hs[h].req
                 /\ out'.resp \in StoredCopies(hs[h].req.url)
                 /\ hs'[h] = Idle
                 /\ store' = store /\ cacheNames' = cacheNames /\ netVersion' = netVersion
            ELSE out'.ev = "none" /\ hs'[h].pc = "fetch"
       /\ (StepsFrom(h, "cacheFirst", "fetch") /\ out'.ev = "respond" /\ ~out'.failed) =>
            out'.resp.src = "network" /\ ~Ok(out'.resp)
       /\ (StepsFrom(h, "cacheFirst", "fetch") /\ hs'[h].pc = "open") =>
            hs'[h].net.src = "network" /\ Ok(hs'[h].net)
       /\ StepsFrom(h, "cacheFirst", "open") =>
            out'.ev = "respond" /\ out'.req = hs[h].req /\ out'.resp = hs[h].net
  ]_vars

\* C6 witness: cacheFirst answered a request from a store.
C6_Witness ==
  /\ out.ev = "respond" /\ out.kind = "cacheFirst" /\ ~out.failed
  /\ out.resp.src = "cache" /\ out.resp \in StoredCopies(out.req.url)

\* The files install precaches, as the URLs pages request them by.
IsCoreFile(request) == \E i \in 1..Len(CORE_FILES) : ResolveUrl(CORE_FILES[i]) = request.url

\* The strategy C10 gives a GET request: the first rule that matches.
ClaimedStrategy(request) ==
  IF IsCoreFile(request) THEN "cacheFirst"
  ELSE IF ParseUrl(request.url).origin = CdnOrigin THEN "staleWhileRevalidate"
  ELSE IF ParseUrl(request.url).origin = SelfOrigin THEN "networkFirst"
  ELSE "cacheFirst"

\* C10: a GET request is handed to exactly the strategy the rules give it (core
\* file, then CDN origin, then own origin, then cacheFirst); a request that is
\* not a GET starts no handler.
C10_DispatchByRules ==
  /\ out.ev = "dispatch" =>
       /\ out.req.method = "GET"
       /\ out.kind = ClaimedStrategy(out.req)
       /\ Cardinality({h \in Slots : hs[h].req = out.req /\ hs[h].pc = FirstPc(out.kind)
                                      /\ hs[h].kind = out.kind}) >= 1
  /\ out.ev = "bypass" => out.req.method # "GET"
  /\ \A h \in Slots : hs[h].req = NoReq \/ hs[h].req.method = "GET"

\* Handler h runs staleWhileRevalidate, has returned a stored copy, and is at pc.
Revalidating(h, pc) ==
  hs[h].kind = "staleWhileRevalidate" /\ hs[h].cached # NoResp /\ hs[h].pc = pc

HandlerSteps(h, kind) ==
  /\ hs[h].kind = kind
  /\ Moved(h)

\* C3: a step of performCleanup changes the stores in one way only: it deletes
\* an entry of the dynamic store whose Date is more than 30 days before the
\* time of the cleanup. Entries that are not that old, entries without a Date
\* and the entries of every other store stay, with the payload they had.
C3_CleanupDeletesOnlyExpired ==
  [][\A h \in Slots :
       HandlerSteps(h, "performCleanup") =>
         /\ \A name \in AllCaches \ {DYNAMIC_CACHE} : store'[name] = store[name]
         /\ DOMAIN store'[DYNAMIC_CACHE] \subseteq DOMAIN store[DYNAMIC_CACHE]
         /\ \A key \in DOMAIN store[DYNAMIC_CACHE] :
              \/ /\ key \in DOMAIN store'[DYNAMIC_CACHE]
                 /\ store'[DYNAMIC_CACHE][key] = store[DYNAMIC_CACHE][key]
              \/ /\ key \notin DOMAIN store'[DYNAMIC_CACHE]
                 /\ store[DYNAMIC_CACHE][key].date # NoDate
                 /\ store[DYNAMIC_CACHE][key].date < hs[h].cutoff
  ]_vars

\* A cleanup ended that no step of another handler came between.
CleanupRanAlone == out.ev = "cleanup" /\ out.alone

\* C4, as claimed: when performCleanup has run to completion with nothing
\* interleaved, the dynamic store holds no entry that was stored more than 30
\* days before the cleanup.
C4_NoEntryStoredLongAgo ==
  CleanupRanAlone =>
    \A key \in DOMAIN store[DYNAMIC_CACHE] :
      ~(store[DYNAMIC_CACHE][key].storedAt < out.cutoff)

\* C4, amended: when performCleanup has run to completion with nothing
\* interleaved, the dynamic store holds no entry whose Date header is more than
\* 30 days before the cleanup: every such entry present at the start has been
\* deleted. An entry without a Date header stays, however long ago it was stored.
C4_NoEntryDatedLongAgo ==
  CleanupRanAlone =>
    \A key \in DOMAIN store[DYNAMIC_CACHE] :
      ~(store[DYNAMIC_CACHE][key].date # NoDate /\ store[DYNAMIC_CACHE][key].date < out.cutoff)

\* C4 witness: a cleanup ran alone and deleted an entry, and an entry without
\* a Date header that was stored more than 30 days before is still there.
C4_Witness ==
  /\ CleanupRanAlone
  /\ out.deleted # {}
  /\ \E key \in DOMAIN store[DYNAMIC_CACHE] :
       /\ store[DYNAMIC_CACHE][key].date = NoDate
       /\ store[DYNAMIC_CACHE][key].storedAt < out.cutoff

\* The names of the two stores of this version.
CurrentCaches == {STATIC_CACHE, DYNAMIC_CACHE}

CoreUrls == {ResolveUrl(CORE_FILES[i]) : i \in 1..Len(CORE_FILES)}

\* C9: when install completes successfully the static store holds an entry for
\* every element of CORE_FILES; when the fetch of a core file fails, the
\* install fails (the worker becomes redundant), the stores are as they were,
\* and the static store holds either all of the core files or none of them.
C9_InstallAllOrNothing ==
  /\ [](out.ev = "installed" =>
          phase = "installed" /\ CoreUrls \subseteq DOMAIN store[STATIC_CACHE])
  /\ [](out.ev = "installFailed" =>
          /\ phase = "redundant"
          /\ \/ CoreUrls \subseteq DOMAIN store[STATIC_CACHE]
             \/ CoreUrls \cap DOMAIN store[STATIC_CACHE] = {})
  /\ [][out'.ev = "installFailed" => store' = store]_vars

\* C9 witness: an install succeeded and the static store holds the core files.
C9_Witness ==
  /\ out.ev = "installed"
  /\ DOMAIN store[STATIC_CACHE] = CoreUrls
  /\ Cardinality(CoreUrls) = Len(CORE_FILES)

\* The store a strategy writes network responses to.
TargetStore(kind) == IF kind = "cacheFirst" THEN STATIC_CACHE ELSE DYNAMIC_CACHE

\* The response the page got is the one the handler would have returned had it
\* run to completion as soon as the request arrived: the copy stored then if
\* there was one (networkFirst: if its fetch failed), and no stored copy of the
\* request if there was none.
RespondedAsIfFirst ==
  /\ (out.seen # NoResp /\ (out.kind # "networkFirst" \/ out.failed)) => out.resp = out.seen
  /\ (out.seen = NoResp /\ out.resp.src = "cache") =>
       /\ out.failed /\ out.req.mode = "navigate"
       /\ out.resp = CachesMatch(FallbackUrl)

\* The entry a strategy wrote is the response its own fetch gave, under the
\* key of its own request, in the store of the strategy.
WroteOwnResponse ==
  (out.ev = "put" /\ IsStrategy(out.kind)) =>
    /\ out.req.url \in DOMAIN store[TargetStore(out.kind)]
    /\ store[TargetStore(out.kind)][out.req.url].payload = out.resp.payload

\* C11, as claimed: whatever other request is handled at the same time, the
\* response a strategy returns is the one it would have returned had it run
\* first, and the entry it writes is its own network response.
C11_IndependentOfOthers ==
  /\ (out.ev = "respond" /\ IsStrategy(out.kind)) => RespondedAsIfFirst
  /\ WroteOwnResponse

\* C11, amended: requests for different resources are independent: when no
\* request for the same URL is handled at the same time, the response a
\* strategy returns is the one it would have returned had it run first; the
\* entry a strategy writes is always its own network response under its own
\* key. Handlers share the stores: the response to a request can depend on the
\* interleaving with the handling of another request for the same URL.
C11_IndependentOfOtherUrls ==
  /\ (out.ev = "respond" /\ IsStrategy(out.kind) /\ ~out.shared) => RespondedAsIfFirst
  /\ WroteOwnResponse

\* C11 witness: a request whose fetch failed was answered while a handler for
\* another URL, which has fetched a response to store, is in flight.
C11_Witness ==
  /\ out.ev = "respond" /\ IsStrategy(out.kind) /\ ~out.shared /\ out.failed
  /\ \E k \in Slots :
       /\ IsStrategy(hs[k].kind) /\ hs[k].req.url # out.req.url
       /\ hs[k].net # NoResp

\* The key cacheAttendanceData stores the backup under, as a URL.
BackupUrl == ResolveUrl(BACKUP_KEY)

\* Every CACHE_ATTENDANCE_DATA message sent so far has been fully handled.
BackupsHandled ==
  lastData # 0 /\ \A h \in Slots : hs[h].kind # "cacheAttendanceData"

\* C12: once every CACHE_ATTENDANCE_DATA message sent has been fully handled,
\* the dynamic store holds the entry 'attendance-data-backup' and its payload is
\* the data of the last message sent, also when the handling of two messages
\* overlapped; a step of cacheAttendanceData changes no other entry of any store.
C12_BackupIsLastData ==
  /\ [](BackupsHandled =>
          /\ BackupUrl \in DOMAIN store[DYNAMIC_CACHE]
          /\ store[DYNAMIC_CACHE][BackupUrl].payload = lastData)
  /\ [][\A h \in Slots :
          HandlerSteps(h, "cacheAttendanceData") =>
            /\ \A n \in AllCaches \ {DYNAMIC_CACHE} : store'[n] = store[n]
            /\ \A key \in DOMAIN store[DYNAMIC_CACHE] \ {BackupUrl} :
                 /\ key \in DOMAIN store'[DYNAMIC_CACHE]
                 /\ store'[DYNAMIC_CACHE][key] = store[DYNAMIC_CACHE][key]
            /\ DOMAIN store'[DYNAMIC_CACHE] \subseteq DOMAIN store[DYNAMIC_CACHE] \cup {BackupUrl}
     ]_vars

\* The status of the response is in the range 200-299.
IsSuccessful(resp) == resp.status \in 200..299

\* The store changes in the entry of key in the store named name only, which
\* now holds the payload of resp.
OnlyEntryWritten(name, key, resp) ==
  /\ key \in DOMAIN store'[name]
  /\ store'[name][key].payload = resp.payload
  /\ DOMAIN store'[name] = DOMAIN store[name] \cup {key}
  /\ \A k \in DOMAIN store[name] \ {key} : store'[name][k] = store[name][k]
  /\ \A n \in AllCaches \ {name} : store'[n] = store[n]

C14_CoreFilesCacheFirst ==
  /\ (out.ev = "dispatch" /\ IsCoreFile(out.req)) => out.kind = "cacheFirst"
  /\ (out.ev = "respond" /\ IsCoreFile(out.req)) =>
       /\ out.kind = "cacheFirst"
       /\ out.resp = CacheMatch(STATIC_CACHE, out.req.url)
       /\ out.resp.src = "cache"

\* C15: when a window of the application is open at the target URL of the click
\* ('./' without an action, './index.html?action=<action>' with one), that window
\* is focused and no window is opened; a window is opened, at the target URL,
\* only when no such window is open.
C15_FocusesOpenWindow ==
  out.ev = "clicked" =>
    LET atTarget == {c \in out.clients : c = ResolveUrl(out.target)}
    IN IF atTarget # {}
       THEN out.focused # {} /\ out.focused \subseteq atTarget /\ out.opened = {}
       ELSE out.focused = {} /\ out.opened = {out.target}

\* The names in the list of store names names.
NamesOf(names) == {names[i] : i \in 1..Len(names)}

\* C16: no step of getCacheStatus changes a store or the list of the stores (no
\* store is created, deleted or written); each count it notes is the number of
\* entries the store holds when it is read; and the reply lists the names of
\* the stores with a count for each of them.
C16_StatusChangesNoStore ==
  /\ [][\A h \in Slots : HandlerSteps(h, "getCacheStatus") =>
            (cacheNames' = cacheNames /\ store' = store)]_vars
  /\ [][\A h \in Slots : StepsFrom(h, "getCacheStatus", "count") =>
            LET cacheName == hs[h].names[hs[h].idx]
            IN hs'[h].status[cacheName] = Cardinality(DOMAIN store[cacheName])]_vars
  /\ [](out.ev = "status" =>
          /\ DOMAIN out.status = NamesOf(out.names)
          /\ NamesOf(out.names) \subseteq NamesOf(cacheNames))

\* The stores whose entry for url was stored at a later instant than the entry
\* of every other store that holds one.
MostRecentIn(url) ==
  {n \in Range(cacheNames) :
     /\ url \in DOMAIN store[n]
     /\ \A m \in Range(cacheNames) \ {n} :
          url \in DOMAIN store[m] => store[m][url].storedAt < store[n][url].storedAt}

\* C17: when networkFirst answers a failed fetch with a stored copy of the
\* request, the copy is the one stored most recently for that resource, also
\* when the static and the dynamic store both hold an entry for it.
C17_ReturnsMostRecentCopy ==
  (RespondedAfterFailure /\ out.kind = "networkFirst") =>
    \A n \in MostRecentIn(out.req.url) : out.resp = CacheMatch(n, out.req.url)

\* C18: once the dynamic store holds the entry 'attendance-data-backup', every
\* step leaves it there (no fetch, message, sync, cleanup or activate removes
\* it), and the only step that changes it is the put of cacheAttendanceData.
C18_BackupOnlyReplacedByMessage ==
  [][(BackupUrl \in DOMAIN store[DYNAMIC_CACHE]) =>
       /\ BackupUrl \in DOMAIN store'[DYNAMIC_CACHE]
       /\ (store'[DYNAMIC_CACHE][BackupUrl] # store[DYNAMIC_CACHE][BackupUrl] =>
             \E h \in Slots : StepsFrom(h, "cacheAttendanceData", "put"))
  ]_vars

\* The static store holds an entry for the request handler h answers.
InStatic(h) == hs[h].req.url \in DOMAIN store[STATIC_CACHE]

\* C19, as claimed: once the static store holds an entry for a resource, no
\* step of a cacheFirst handler for that resource, whether it started later or
\* runs concurrently, settles a fetch for it or writes its entry again: one
\* fetch and one write at most happen for the resource in every interleaving.
C19_OneFetchOneWrite ==
  [][\A h \in Slots :
       (HandlerSteps(h, "cacheFirst") /\ InStatic(h)) =>
         /\ hs[h].pc \notin {"fetch", "put"}
         /\ netVersion' = netVersion
         /\ store' = store
  ]_vars

\* C19, as the code has it: a cacheFirst handler whose caches.match resolves
\* while the static store holds an entry for the request answers with a stored
\* copy and ends, without a fetch and without a write; a handler whose match
\* found nothing fetches once and writes at most once, in the static store
\* under the request's key, also when another handler stored an entry for the
\* same resource meanwhile.
C19_NoFetchAfterHit ==
  [][\A h \in Slots :
       /\ (StepsFrom(h, "cacheFirst", "match") /\ InStatic(h)) =>
            /\ hs'[h] = Idle
            /\ out'.ev = "respond" /\ out'.resp.src = "cache"
            /\ netVersion' = netVersion /\ store' = store
       /\ StepsFrom(h, "cacheFirst", "fetch") => (hs'[h].pc # "fetch" /\ store' = store)
       /\ (HandlerSteps(h, "cacheFirst") /\ store' # store) =>
            /\ hs[h].pc = "put" /\ hs'[h] = Idle
            /\ OnlyEntryWritten(STATIC_CACHE, hs[h].req.url, hs[h].net)
  ]_vars

\* C19 witness: of two handlers that answered requests for the same resource at
\* the same time, one found in the static store the entry the other had stored
\* since the request arrived, and answered with it.
C19_Witness ==
  /\ out.ev = "respond" /\ out.kind = "cacheFirst" /\ out.shared
  /\ out.seen = NoResp
  /\ out.resp.src = "cache" /\ out.resp = CacheMatch(STATIC_CACHE, out.req.url)

====
